---------------------------- MODULE Spec2Model ----------------------------
(***************************************************************************)
(* Model of the cocotb verification components of ocx_dlx_top:             *)
(*   DLXDriver   (src/src/cocotb_vip_templates/driver.py)                  *)
(*   the test helpers of src/tests/test_ocx_dlx_top.py                     *)
(* together with the parts of the link the harness talks to (lane          *)
(* aggregation, CRC, credit counter, link-up), which exist only as a       *)
(* design description and are modelled from it.                            *)
(*                                                                         *)
(* Scheduling.  The test is a single cocotb coroutine.  It runs until it   *)
(* reaches "await RisingEdge(clk)"; the simulator then advances to the     *)
(* next rising edge, the design samples the signal values the coroutine    *)
(* left behind, and the coroutine resumes in that same time step.  Every   *)
(* action below is therefore one coroutine segment between two awaits,     *)
(* and an action that starts at an await contains the clock edge with      *)
(* the values sampled at it (LaneEdge, LinkEdge).                          *)
(*                                                                         *)
(* Widths.  The driver slices a 512-bit flit into 8 words of 64 bits.      *)
(* The slicing arithmetic (shift by i * width, mask by 2^width - 1) is     *)
(* kept as it is in the code, with the lane width LaneBits scaled down so  *)
(* that the values stay within the integers of the model checker.          *)
(*                                                                         *)
(* Two specifications share the state.  SpecLanes runs the RX lane side    *)
(* (send_dlx_flit and the aggregation of the lanes); SpecLink runs reset,  *)
(* link-up, the TLX send and the credits.  The two sides touch disjoint    *)
(* signals, so each specification holds the other side still.              *)
(***************************************************************************)
EXTENDS Integers, Sequences, FiniteSets, TLC

\* ----------------------------------------------------------------- bounds
\* Width in bits of one lane word (64 in the code, scaled).
LaneBits == 2

\* Number of lanes: range(8) in driver.py.
NumLanes == 8

\* Headers are drawn from [0, HeaderLimit): secrets.randbelow(4).
HeaderLimit == 4

\* Clock(dut.clk_156_25MHz, 10, units="ns"): the clock period in ns.
ClockPeriod == 10

\* Largest cycle budget a caller gives wait_for_linkup (100 with the default
\* timeout_ns = 1000).
MaxTimeoutTicks == 3

\* Receiver buffer depth: the credits available after start.
CreditDepth == 2

\* The reset hold the link honours: two awaited rising edges in
\* apply_reset_sequence.
MinResetCycles == 2

\* await Timer(100, units="ns"): the reset hold of the bring-up sequence.
ResetHoldNs == 100

\* timeout = 5000: the link-up timeout of the bring-up sequence, in ns.
LinkupTimeoutNs == 5000

\* Number of handshake stages: reset-done, buffer-bypass-done,
\* user-clock-active, send-first.
NumStages == 4

Lanes == 0 .. (NumLanes - 1)

Stages == 1 .. NumStages

Headers == 0 .. (HeaderLimit - 1)

TotalBits == NumLanes * LaneBits

\* 2^512 in the code: the number of flit payloads.
FlitSpace == 2 ^ TotalBits

\* 0xFFFFFFFFFFFFFFFF in the code.
LaneMask == (2 ^ LaneBits) - 1

\* A payload whose lane words differ from lane to lane and from their
\* mirror image: lane i holds (i + 1) mod 2^LaneBits.
RECURSIVE LanePatternUpTo(_)
LanePatternUpTo(i) ==
    IF i < 0 THEN 0
    ELSE ((i + 1) % (2 ^ LaneBits)) * (2 ^ (i * LaneBits)) + LanePatternUpTo(i - 1)

LanePattern == LanePatternUpTo(NumLanes - 1)

\* The payloads the tests draw, secrets.randbelow(2**512): the corner values
\* and a pattern that tells the lanes apart.
FlitValues == {0, 1, 2 ^ (TotalBits - 1), FlitSpace - 1, LanePattern}

\* What a caller can pass as flit_data: any non-negative int, also one wider
\* than the flit.
DriveValues == FlitValues \cup {FlitSpace + LanePattern}

\* The payloads driven on the TLX side.
TlxFlitValues == {1, FlitSpace - 1}

\* The timeout_ns values a caller passes to wait_for_linkup: below one clock
\* period, one period, between two and three periods, the largest budget.
TimeoutChoices ==
    {0, ClockPeriod - 1, ClockPeriod, 2 * ClockPeriod + 5, MaxTimeoutTicks * ClockPeriod}

\* ------------------------------------------------------------------ state
VARIABLES
    pc,                 \* position of the test coroutine
    flit_data,          \* argument flit_data of the running/last send
    header,             \* argument header of the running/last send
    ln_rx_data,         \* dut.ln{i}_rx_data
    ln_rx_header,       \* dut.ln{i}_rx_header
    ln_rx_valid,        \* dut.ln{i}_rx_valid
    lane_valid_edges,   \* rising edges at which a lane of the last
                        \* send_dlx_flit was sampled valid (2 = two or more)
    sent_crc,           \* CRC of the payload, computed at send time
    dlx_tlx_flit_valid, \* dut.dlx_tlx_flit_valid
    dlx_tlx_flit,       \* dut.dlx_tlx_flit
    dlx_tlx_flit_header,\* header of the reassembled flit
    dlx_tlx_flit_crc_err, \* dut.dlx_tlx_flit_crc_err
    reset,              \* dut.reset
    reset_held_edges,   \* rising edges sampled with reset = 1 in the running/
                        \* last apply_reset_sequence (capped)
    reset_settle_edges, \* rising edges sampled with reset = 0 since that
                        \* sequence deasserted reset (capped)
    rx_tx_linkup,       \* dut.rx_tx_linkup
    timeout_ticks,      \* local of wait_for_linkup
    timeout_count,      \* local of wait_for_linkup
    wfl_log,            \* what wait_for_linkup logged last
    wfl_outcome,        \* how wait_for_linkup ended for its caller
    tlx_dlx_flit_valid, \* dut.tlx_dlx_flit_valid
    tlx_dlx_flit,       \* dut.tlx_dlx_flit
    tlx_dlx_debug_encode, \* dut.tlx_dlx_debug_encode
    send_outcome,       \* how the last send_tlx_flit ended for its caller
    linkup_at_send,     \* rx_tx_linkup when the last send_tlx_flit began
    credit_at_send,     \* available when the last send_tlx_flit began
    available,          \* CreditCounter.available, which the tests read on
                        \* dut.dlx_tlx_flit_credit
    burst,              \* flits accepted since the credits were last full,
                        \* with no release in between (-1: a release came)
    hb_gtwiz_reset_all_in,      \* dut.hb_gtwiz_reset_all_in
    gtwiz_reset_done_in,        \* dut.gtwiz_reset_tx_done_in and
                                \* dut.gtwiz_reset_rx_done_in, written together
    gtwiz_buffbypass_done_in,   \* dut.gtwiz_buffbypass_tx_done_in and _rx_
    gtwiz_userclk_active_in,    \* dut.gtwiz_userclk_tx_active_in and _rx_
    send_first,                 \* dut.send_first
    omit,               \* the handshake stage the bring-up leaves out (0: none,
                        \* the sequence as dlx_test runs it)
    timer_left,         \* rising edges left until the Timer of the bring-up fires
    wait_ns,            \* get_sim_time("ns") - start_time in the link-up wait
    link_state,         \* LinkState of the link training state machine
    hs_stage,           \* handshake stages the state machine has observed in order
    sm_held,            \* edges the state machine sampled reset asserted (capped)
    edge_no,            \* rising edges since the bring-up began
    asserted_at,        \* per stage, the edge_no at which its signal was first
                        \* sampled asserted (0: not yet)
    timeout_ns,         \* the timeout_ns argument of wait_for_linkup
    linkup_at_exit,     \* rx_tx_linkup as the loop condition of wait_for_linkup
                        \* read it when the loop was left
    mon_pc,             \* where observe_tlx_rx_flit stands: "idle", "waiting"
                        \* (in await RisingEdge(dlx_tlx_flit_valid)) or "done"
    mon_result,         \* the tuple observe_tlx_rx_flit returned
    sampled_valid,      \* the lane valids the aggregator sampled at the last edge
    lanes_down,         \* the lanes brought down since the last send returned
    corrupt_mask,       \* the mask XORed into a lane since the flit was framed
    corrupt_lane,       \* the lane it was XORed into
    rx_tx_nack,         \* dut.rx_tx_nack
    dlx_tx_data,        \* dut.dlx_l{i}_tx_data, per lane
    dlx_tx_header,      \* dut.dlx_l{i}_tx_header, per lane
    retx_buffer,        \* RetransmitBuffer: the flits sent and not acknowledged
    replayed,           \* 1 when the last edge re-presented a flit after a NACK
    cycles_left,        \* rising edges left in await ClockCycles(clk, 4)
    expected_data,      \* expected_data of the check in progress, per lane
    expected_header,    \* expected_header of check_lane_outputs, per lane
    check_outcome,      \* how the last check ended
    active_high_reset,  \* the argument of Bus.__init__
    reset_active_level  \* the reset_active_level Bus.__init__ passes to the base
                        \* class (-1: no bus constructed yet)

laneVars == << ln_rx_data, ln_rx_header, ln_rx_valid, lane_valid_edges, sent_crc >>

rxVars == << dlx_tlx_flit_valid, dlx_tlx_flit, dlx_tlx_flit_header,
             dlx_tlx_flit_crc_err >>

resetVars == << reset, reset_held_edges, reset_settle_edges >>

wflVars == << timeout_ticks, timeout_count, wfl_log, wfl_outcome, timeout_ns,
             linkup_at_exit >>

tlxVars == << tlx_dlx_flit_valid, tlx_dlx_flit, tlx_dlx_debug_encode,
              send_outcome, linkup_at_send, credit_at_send >>

dutLinkVars == << rx_tx_linkup, available, burst >>

handshakeVars == << gtwiz_reset_done_in, gtwiz_buffbypass_done_in,
                    gtwiz_userclk_active_in, send_first >>

trainingVars == << link_state, hs_stage, sm_held, edge_no, asserted_at >>

bringupVars == << hb_gtwiz_reset_all_in, handshakeVars, omit, timer_left, wait_ns,
                  trainingVars >>

monVars == << mon_pc, mon_result >>

faultVars == << sampled_valid, corrupt_mask, corrupt_lane, lanes_down >>

txVars == << rx_tx_nack, dlx_tx_data, dlx_tx_header, retx_buffer, replayed >>

checkVars == << cycles_left, expected_data, expected_header, check_outcome >>

busVars == << active_high_reset, reset_active_level >>

\* What neither the RX lane side nor the driver's link side touches.
farSide == << bringupVars, txVars, checkVars, busVars >>

linkSide == << resetVars, wflVars, tlxVars, dutLinkVars, farSide >>

laneSide == << laneVars, rxVars, monVars, faultVars >>

vars == << pc, flit_data, header, laneSide, linkSide >>

\* ---------------------------------------------------------------- helpers
Min(a, b) == IF a < b THEN a ELSE b

\* Bit k of the non-negative integer n.
Bit(n, k) == (n \div (2 ^ k)) % 2

\* The value of bits [lo + w - 1 : lo] of n.
RECURSIVE BitSlice(_, _, _)
BitSlice(n, lo, w) ==
    IF w = 0 THEN 0
    ELSE Bit(n, lo) + 2 * BitSlice(n, lo + 1, w - 1)

\* Bitwise exclusive or of two non-negative integers.
RECURSIVE Xor(_, _)
Xor(a, b) ==
    IF a = 0 /\ b = 0 THEN 0
    ELSE (((a % 2) + (b % 2)) % 2) + 2 * Xor(a \div 2, b \div 2)

\* ------------------------------------------------- DLXDriver.send_dlx_flit
\* data_chunks[i] = (flit_data >> (i * 64)) & 0xFFFFFFFFFFFFFFFF
DataChunkBigEndian(f, i) ==
    (f \div (2 ^ ((NumLanes - 1 - i) * LaneBits))) % (LaneMask + 1)

DataChunkNoMask(f, i) == f \div (2 ^ (i * LaneBits))

DataChunkSaturate(f, i) ==
    IF f >= FlitSpace THEN LaneMask
    ELSE (f \div (2 ^ (i * LaneBits))) % (LaneMask + 1)

DataChunk(f, i) == (f \div (2 ^ (i * LaneBits))) % (LaneMask + 1)

data_chunks(f) == [i \in Lanes |-> DataChunk(f, i)]

\* getattr(self.dut, f"ln{i}_rx_header").value = header, for each lane
LaneHeadersLaneIndex(h) == [i \in Lanes |-> IF i = 0 THEN h ELSE i % HeaderLimit]

LaneHeaders(h) == [i \in Lanes |-> h]

\* getattr(self.dut, f"ln{i}_rx_valid").value = 1, for each lane
AssertValidSticky == [i \in Lanes |-> IF i \in lanes_down THEN 0 ELSE 1]

AssertValid == [i \in Lanes |-> 1]

\* getattr(self.dut, f"ln{i}_rx_valid").value = 0, for i in range(8)
DeassertValidKeep(v) == v

DeassertValid(v) == [i \in Lanes |-> 0]

\* --------------------------------------------------------------- CRC engine
\* Width and generator (x^3 + x + 1) of the integrity code.
CrcWidth == 3

CrcPoly == 11

\* Remainder of the payload polynomial modulo the generator, bits taken from
\* the most significant payload bit down to bit 0.
RECURSIVE CrcFrom(_, _, _)
CrcFrom(p, k, reg) ==
    IF k < 0 THEN reg
    ELSE LET shifted == 2 * reg + Bit(p, k)
             reduced == IF shifted >= 2 ^ CrcWidth THEN Xor(shifted, CrcPoly)
                        ELSE shifted
         IN  CrcFrom(p, k - 1, reduced)

\* compute(payload) -> crc_value
crc_compute(p) == CrcFrom(p, TotalBits - 1, 0)

\* validate(payload, crc_value) -> bool
crc_validate(p, crc) == crc_compute(p) = crc

\* ------------------------------------------------ lane deskew / aggregator
\* payload = concat(lane[7].data, ..., lane[0].data)
RECURSIVE ConcatUpTo(_, _)
ConcatUpTo(d, i) ==
    IF i < 0 THEN 0
    ELSE d[i] * (2 ^ (i * LaneBits)) + ConcatUpTo(d, i - 1)

Concat(d) == ConcatUpTo(d, NumLanes - 1)

\* A flit is rebuilt only when all 8 lanes report valid in the same cycle.
AnyLaneValid(v) == \E i \in Lanes : v[i] = 1

AllLanesValid(v) == \A i \in Lanes : v[i] = 1

\* The lane from which the rebuilt flit takes its header.
HeaderLane == 0

\* ------------------------------------------------------ observe_tlx_rx_flit
\* monitor.py 52: header = int(self.dut.dlx_tlx_flit_crc_err.value)
MonitorHeader(hdr, crc_err) == crc_err

\* monitor.py 49-53: the coroutine resumes on a rising edge of
\* dlx_tlx_flit_valid and returns what it reads then.
ObserveTlxRxFlit ==
    IF mon_pc = "waiting" /\ dlx_tlx_flit_valid = 0 /\ dlx_tlx_flit_valid' = 1
    THEN /\ mon_result' = << dlx_tlx_flit',
                             MonitorHeader(dlx_tlx_flit_header', dlx_tlx_flit_crc_err'),
                             dlx_tlx_flit_crc_err' >>
         /\ mon_pc' = "done"
    ELSE UNCHANGED monVars

\* One rising edge as the RX lane side of the design sees it: it samples the
\* lane signals and, when all lanes are valid, emits the rebuilt flit tagged
\* with the outcome of the CRC validation.
LaneEdge ==
    /\ lane_valid_edges' =
          IF \E i \in Lanes : ln_rx_valid[i] = 1
          THEN Min(lane_valid_edges + 1, 2)
          ELSE lane_valid_edges
    /\ IF AllLanesValid(ln_rx_valid)
       THEN /\ dlx_tlx_flit_valid' = 1
            /\ dlx_tlx_flit' = Concat(ln_rx_data)
            /\ dlx_tlx_flit_header' = ln_rx_header[HeaderLane]
            /\ dlx_tlx_flit_crc_err' =
                  IF crc_validate(Concat(ln_rx_data), sent_crc) THEN 0 ELSE 1
       ELSE /\ dlx_tlx_flit_valid' = 0
            /\ UNCHANGED << dlx_tlx_flit, dlx_tlx_flit_header, dlx_tlx_flit_crc_err >>
    /\ sampled_valid' = ln_rx_valid
    /\ ObserveTlxRxFlit

\* -------------------------------------------------------------------- Init
Init ==
    /\ pc = "idle"
    /\ flit_data = 0
    /\ header = 0
    /\ ln_rx_data = [i \in Lanes |-> 0]
    /\ ln_rx_header = [i \in Lanes |-> 0]
    /\ ln_rx_valid = [i \in Lanes |-> 0]
    /\ lane_valid_edges = 0
    /\ sent_crc = 0
    /\ dlx_tlx_flit_valid = 0
    /\ dlx_tlx_flit = 0
    /\ dlx_tlx_flit_header = 0
    /\ dlx_tlx_flit_crc_err = 0
    /\ reset = 0
    /\ reset_held_edges = 0
    /\ reset_settle_edges = 0
    /\ rx_tx_linkup = 0
    /\ timeout_ticks = 0
    /\ timeout_count = 0
    /\ wfl_log = "none"
    /\ wfl_outcome = "none"
    /\ tlx_dlx_flit_valid = 0
    /\ tlx_dlx_flit = 0
    /\ tlx_dlx_debug_encode = 0
    /\ send_outcome = "none"
    /\ linkup_at_send = 0
    /\ credit_at_send = 0
    /\ available = CreditDepth
    /\ burst = 0
    /\ hb_gtwiz_reset_all_in = 0
    /\ gtwiz_reset_done_in = 0
    /\ gtwiz_buffbypass_done_in = 0
    /\ gtwiz_userclk_active_in = 0
    /\ send_first = 0
    /\ omit = 0
    /\ timer_left = 0
    /\ wait_ns = 0
    /\ link_state = "DOWN"
    /\ hs_stage = 0
    /\ sm_held = 0
    /\ edge_no = 0
    /\ asserted_at = [k \in Stages |-> 0]
    /\ timeout_ns = 0
    /\ linkup_at_exit = 0
    /\ mon_pc = "idle"
    /\ mon_result = << 0, 0, 0 >>
    /\ sampled_valid = [i \in Lanes |-> 0]
    /\ corrupt_mask = 0
    /\ corrupt_lane = 0
    /\ lanes_down = {}
    /\ rx_tx_nack = 0
    /\ dlx_tx_data = [i \in Lanes |-> 0]
    /\ dlx_tx_header = [i \in Lanes |-> 0]
    /\ retx_buffer = << >>
    /\ replayed = 0
    /\ cycles_left = 0
    /\ expected_data = [i \in Lanes |-> 0]
    /\ expected_header = [i \in Lanes |-> 0]
    /\ check_outcome = "none"
    /\ active_high_reset = TRUE
    /\ reset_active_level = -1

\* ------------------------------------------------ send_dlx_flit, the actions
\* driver.py 101-107: split the flit, drive data, header and valid of every
\* lane, then await the rising edge.
SendDlxFlitDrive ==
    \E f \in DriveValues, h \in Headers :
        /\ pc = "idle"
        /\ flit_data' = f
        /\ header' = h
        /\ ln_rx_data' = data_chunks(f)
        /\ ln_rx_header' = LaneHeaders(h)
        /\ ln_rx_valid' = AssertValid
        /\ lane_valid_edges' = 0
        /\ sent_crc' = crc_compute(f)
        /\ corrupt_mask' = 0
        /\ corrupt_lane' = 0
        /\ pc' = "dlx_wait"
        /\ UNCHANGED << rxVars, monVars, sampled_valid, lanes_down, linkSide >>

\* driver.py 107-110: the awaited rising edge, then valid = 0 on every lane.
SendDlxFlitDeassert ==
    /\ pc = "dlx_wait"
    /\ LaneEdge
    /\ ln_rx_valid' = DeassertValid(ln_rx_valid)
    /\ lanes_down' = {}
    /\ pc' = "idle"
    /\ UNCHANGED << flit_data, header, ln_rx_data, ln_rx_header, sent_crc,
                    corrupt_mask, corrupt_lane, linkSide >>

\* A rising edge passing while the test is between two operations.
IdleLaneEdge ==
    /\ pc = "idle"
    /\ LaneEdge
    /\ UNCHANGED << pc, flit_data, header, ln_rx_data, ln_rx_header, ln_rx_valid,
                    sent_crc, corrupt_mask, corrupt_lane, lanes_down, linkSide >>

NextLanes ==
    \/ SendDlxFlitDrive
    \/ SendDlxFlitDeassert
    \/ IdleLaneEdge

SpecLanes == Init /\ [][NextLanes]_vars

\* ------------------------------------------------- credit flow control
\* try_reserve(): decrements if available > 0.
try_reserve(a) == IF a > 0 THEN a - 1 ELSE a

\* release(): increments, capped at depth.
release_uncapped(a) == a + 1

release(a) == IF a < CreditDepth THEN a + 1 ELSE a

\* ------------------------------------------------------------ link training
\* The values rx_tx_linkup can take after a rising edge: the link is down
\* while reset is asserted, and once up it stays up until the next reset.
LinkupAfterEdge(rst, up) == IF rst = 1 THEN {0} ELSE {up, 1}

\* One rising edge as the link side of the design sees it: it samples reset
\* and the TLX flit-valid, moves the link state, and the credit counter takes
\* a release (when the receiver drained a buffer) and then the reservation of
\* the flit presented at this edge.
LinkEdge ==
    /\ reset_held_edges' =
          IF reset = 1 THEN Min(reset_held_edges + 1, 3) ELSE reset_held_edges
    /\ reset_settle_edges' =
          IF reset = 0 THEN Min(reset_settle_edges + 1, 2) ELSE reset_settle_edges
    /\ rx_tx_linkup' \in LinkupAfterEdge(reset, rx_tx_linkup)
    /\ \E rel \in BOOLEAN :
          LET released == IF rel THEN release(available) ELSE available
              reserved == IF tlx_dlx_flit_valid = 1 THEN try_reserve(released)
                          ELSE released
          IN  /\ available' = reserved
              /\ burst' =
                    IF reserved = CreditDepth THEN 0
                    ELSE IF rel THEN -1
                    ELSE IF tlx_dlx_flit_valid = 1 /\ burst >= 0
                         THEN Min(burst + 1, CreditDepth + 1)
                    ELSE burst

\* ------------------------------------------- DLXDriver.apply_reset_sequence
\* driver.py 54-55: reset = 1, await the first rising edge.
ApplyResetAssert ==
    /\ pc = "idle"
    /\ reset' = 1
    /\ reset_held_edges' = 0
    /\ reset_settle_edges' = 0
    /\ pc' = "reset_hold1"
    /\ UNCHANGED << flit_data, header, laneSide, farSide, wflVars, tlxVars, dutLinkVars >>

\* driver.py 55-56: the first edge has come, await the second.
ApplyResetHoldShort ==
    /\ pc = "reset_hold1"
    /\ LinkEdge
    /\ reset' = 0
    /\ pc' = "reset_settle"
    /\ UNCHANGED << flit_data, header, laneSide, farSide, wflVars, tlxVars >>

ApplyResetHold ==
    /\ pc = "reset_hold1"
    /\ LinkEdge
    /\ pc' = "reset_hold2"
    /\ UNCHANGED << reset, flit_data, header, laneSide, farSide, wflVars, tlxVars >>

\* driver.py 56-59: the second edge has come, reset = 0, await one more edge.
ApplyResetDeassert ==
    /\ pc = "reset_hold2"
    /\ LinkEdge
    /\ reset' = 0
    /\ pc' = "reset_settle"
    /\ UNCHANGED << flit_data, header, laneSide, farSide, wflVars, tlxVars >>

\* driver.py 59: the edge after the deassertion has come; return.
ApplyResetSettle ==
    /\ pc = "reset_settle"
    /\ LinkEdge
    /\ pc' = "idle"
    /\ UNCHANGED << reset, flit_data, header, laneSide, farSide, wflVars, tlxVars >>

\* ----------------------------------------------- DLXDriver.wait_for_linkup
\* timeout_ticks = timeout_ns // clock_period_ns
TimeoutTicks(ns) == ns \div ClockPeriod

\* while self.dut.rx_tx_linkup.value != 1 and timeout_count < timeout_ticks
LoopConditionInclusive(up, count, ticks) == up # 1 /\ count <= ticks

LoopCondition(up, count, ticks) == up # 1 /\ count < ticks

\* if timeout_count >= timeout_ticks: log.error(...) else: log.info(...)
WflLog(count, ticks) == IF count >= ticks THEN "error" ELSE "info"

\* Both branches only log: the coroutine returns None to its caller.
WflOutcome(count, ticks) == "returned"

\* driver.py 67-72: compute the budget, test the loop condition once.
WaitForLinkupBegin ==
    \E t \in TimeoutChoices :
        /\ pc = "idle"
        /\ timeout_ns' = t
        /\ timeout_ticks' = TimeoutTicks(t)
        /\ timeout_count' = 0
        /\ IF LoopCondition(rx_tx_linkup, 0, TimeoutTicks(t))
           THEN /\ pc' = "wfl_wait"
                /\ wfl_log' = "none"
                /\ wfl_outcome' = "none"
                /\ linkup_at_exit' = 0
           ELSE /\ pc' = "idle"
                /\ wfl_log' = WflLog(0, TimeoutTicks(t))
                /\ wfl_outcome' = WflOutcome(0, TimeoutTicks(t))
                /\ linkup_at_exit' = rx_tx_linkup
        /\ UNCHANGED << flit_data, header, laneSide, farSide, resetVars, tlxVars,
                        dutLinkVars >>

\* driver.py 72-79: the awaited edge has come; count it, test the loop
\* condition again and, when it fails, log and return.
WaitForLinkupEdge ==
    /\ pc = "wfl_wait"
    /\ LinkEdge
    /\ timeout_count' = timeout_count + 1
    /\ IF LoopCondition(rx_tx_linkup', timeout_count + 1, timeout_ticks)
       THEN /\ pc' = "wfl_wait"
            /\ UNCHANGED << wfl_log, wfl_outcome, linkup_at_exit >>
       ELSE /\ pc' = "idle"
            /\ wfl_log' = WflLog(timeout_count + 1, timeout_ticks)
            /\ wfl_outcome' = WflOutcome(timeout_count + 1, timeout_ticks)
            /\ linkup_at_exit' = rx_tx_linkup'
    /\ UNCHANGED << timeout_ticks, timeout_ns, reset, flit_data, header, laneSide,
                    farSide, tlxVars >>

\* ------------------------------------------------- DLXDriver.send_tlx_flit
\* How send_tlx_flit ends for its caller: it returns None.
SendOutcome(up, credits) == "returned"

\* driver.py 88-91: flit-valid = 1 with the flit and the header, then await
\* the rising edge.
SendTlxFlitDrive ==
    \E f \in TlxFlitValues, h \in Headers :
        /\ pc = "idle"
        /\ flit_data' = f
        /\ header' = h
        /\ tlx_dlx_flit_valid' = 1
        /\ tlx_dlx_flit' = f
        /\ tlx_dlx_debug_encode' = h
        /\ linkup_at_send' = rx_tx_linkup
        /\ credit_at_send' = available
        /\ send_outcome' = "pending"
        /\ pc' = "tlx_wait"
        /\ UNCHANGED << laneSide, farSide, resetVars, wflVars, dutLinkVars >>

\* driver.py 91-92: the awaited edge has come, flit-valid = 0; return.
SendTlxFlitDeassert ==
    /\ pc = "tlx_wait"
    /\ LinkEdge
    /\ tlx_dlx_flit_valid' = 0
    /\ send_outcome' = SendOutcome(linkup_at_send, credit_at_send)
    /\ pc' = "idle"
    /\ UNCHANGED << reset, flit_data, header, laneSide, farSide, wflVars, tlx_dlx_flit,
                    tlx_dlx_debug_encode, linkup_at_send, credit_at_send >>

\* A rising edge passing while the test is between two operations.
IdleLinkEdge ==
    /\ pc = "idle"
    /\ LinkEdge
    /\ UNCHANGED << pc, reset, flit_data, header, laneSide, farSide, wflVars, tlxVars >>

NextLink ==
    \/ ApplyResetAssert
    \/ ApplyResetHold
    \/ ApplyResetDeassert
    \/ ApplyResetSettle
    \/ WaitForLinkupBegin
    \/ WaitForLinkupEdge
    \/ SendTlxFlitDrive
    \/ SendTlxFlitDeassert
    \/ IdleLinkEdge

SpecLink == Init /\ [][NextLink]_vars

\* ------------------------------------------- link training state machine
\* The handshake signal of a stage, in the fixed order reset-done,
\* buffer-bypass-done, user-clock-active, send-first.
StageSignal(k) ==
    CASE k = 1 -> gtwiz_reset_done_in
      [] k = 2 -> gtwiz_buffbypass_done_in
      [] k = 3 -> gtwiz_userclk_active_in
      [] OTHER -> send_first

AllStagesAsserted == \A k \in Stages : StageSignal(k) = 1

\* The stages observed after an edge: the machine observes the next stage in
\* order when it samples that stage's signal asserted; a later signal seen
\* before an earlier one is not an observation in order.
StagesObserved(stage) ==
    IF stage < NumStages /\ StageSignal(stage + 1) = 1 THEN stage + 1 ELSE stage

\* LinkState after an edge that sampled reset as rst, with `stage' stages
\* observed in order and reset sampled asserted on `held' edges so far.
\* Lane faults are outside the bring-up and are taken as absent.
NextLinkState(st, rst, stage, held) ==
    IF rst = 1
    THEN IF st \in {"DOWN", "RESET_HELD"} THEN "RESET_HELD" ELSE "DOWN"
    ELSE CASE st = "RESET_HELD" /\ stage = NumStages /\ held >= MinResetCycles
                 -> "TRAINING"
           [] st = "TRAINING" /\ AllStagesAsserted -> "LINK_UP"
           [] OTHER -> st

\* One rising edge as the link training state machine sees it: it samples the
\* global reset and the handshake signals as they stood before the edge.
TrainingEdge ==
    /\ edge_no' = edge_no + 1
    /\ asserted_at' =
          [k \in Stages |->
              IF asserted_at[k] = 0 /\ StageSignal(k) = 1 THEN edge_no + 1
              ELSE asserted_at[k]]
    /\ sm_held' =
          IF hb_gtwiz_reset_all_in = 1 THEN Min(sm_held + 1, MinResetCycles)
          ELSE sm_held
    /\ hs_stage' =
          IF link_state = "RESET_HELD" THEN StagesObserved(hs_stage)
          ELSE IF hb_gtwiz_reset_all_in = 1 THEN 0
          ELSE hs_stage
    /\ link_state' = NextLinkState(link_state, hb_gtwiz_reset_all_in, hs_stage, sm_held)
    /\ rx_tx_linkup' = IF link_state' = "LINK_UP" THEN 1 ELSE 0

\* ------------------------------------------------- dlx_test, the bring-up
\* What the bring-up leaves alone.
bringupFrame == << flit_data, header, laneSide, resetVars, wflVars, tlxVars,
                   available, burst, txVars, checkVars, busVars >>

\* The value a stage's signals are driven to: 1 as dlx_test writes it, and
\* left at 0 for the one stage a link-sequencing scenario leaves out.
StageValue(k, o) == IF o = k THEN 0 ELSE 1

\* await Timer(100, units="ns") right after a rising edge: the rising edges
\* that pass before the coroutine resumes.  When the delay is a whole number
\* of clock periods the timer fires at the instant of a rising edge, and
\* that edge may fall on either side of the resumption.
TimerEdges(ns) ==
    IF ns % ClockPeriod = 0
    THEN {(ns \div ClockPeriod) - 1, ns \div ClockPeriod}
    ELSE {ns \div ClockPeriod}

\* dlx_test.py 32-35: hb_gtwiz_reset_all_in = 1, send_first = 0, then await
\* the rising edge.
BringupAssertReset ==
    \E o \in 0 .. NumStages :
        /\ pc = "idle"
        /\ edge_no = 0
        /\ omit' = o
        /\ hb_gtwiz_reset_all_in' = 1
        /\ send_first' = 0
        /\ pc' = "bu_reset"
        /\ UNCHANGED << gtwiz_reset_done_in, gtwiz_buffbypass_done_in,
                        gtwiz_userclk_active_in, timer_left, wait_ns, trainingVars,
                        rx_tx_linkup, bringupFrame >>

\* dlx_test.py 35-36: the awaited edge, then await Timer(100, units="ns").
BringupStartTimer ==
    \E n \in TimerEdges(ResetHoldNs) :
        /\ pc = "bu_reset"
        /\ TrainingEdge
        /\ timer_left' = n
        /\ pc' = "bu_timer"
        /\ UNCHANGED << hb_gtwiz_reset_all_in, handshakeVars, omit, wait_ns,
                        bringupFrame >>

\* A rising edge passing while the timer runs.
BringupTimerEdge ==
    /\ pc = "bu_timer"
    /\ timer_left > 0
    /\ TrainingEdge
    /\ timer_left' = timer_left - 1
    /\ UNCHANGED << pc, hb_gtwiz_reset_all_in, handshakeVars, omit, wait_ns,
                    bringupFrame >>

\* The step below with lines 42-43 run before the await of line 40, so that
\* two stages are asserted between the same pair of edges.
BringupResetDoneWithBypass ==
    /\ pc = "bu_timer"
    /\ timer_left = 0
    /\ gtwiz_reset_done_in' = StageValue(1, omit)
    /\ gtwiz_buffbypass_done_in' = StageValue(2, omit)
    /\ pc' = "bu_done"
    /\ UNCHANGED << hb_gtwiz_reset_all_in, gtwiz_userclk_active_in, send_first, omit,
                    timer_left, wait_ns, trainingVars, rx_tx_linkup, bringupFrame >>

\* dlx_test.py 38-40: the timer fired; gtwiz_reset_tx_done_in = 1 and
\* gtwiz_reset_rx_done_in = 1, then await the rising edge.
BringupResetDone ==
    /\ pc = "bu_timer"
    /\ timer_left = 0
    /\ gtwiz_reset_done_in' = StageValue(1, omit)
    /\ pc' = "bu_done"
    /\ UNCHANGED << hb_gtwiz_reset_all_in, gtwiz_buffbypass_done_in,
                    gtwiz_userclk_active_in, send_first, omit, timer_left, wait_ns,
                    trainingVars, rx_tx_linkup, bringupFrame >>

\* dlx_test.py 40-44: the awaited edge; gtwiz_buffbypass_tx_done_in = 1 and
\* gtwiz_buffbypass_rx_done_in = 1, then await the rising edge.
BringupBuffBypass ==
    /\ pc = "bu_done"
    /\ TrainingEdge
    /\ gtwiz_buffbypass_done_in' = StageValue(2, omit)
    /\ pc' = "bu_bypass"
    /\ UNCHANGED << hb_gtwiz_reset_all_in, gtwiz_reset_done_in,
                    gtwiz_userclk_active_in, send_first, omit, timer_left, wait_ns,
                    bringupFrame >>

\* dlx_test.py 44-48: the awaited edge; gtwiz_userclk_tx_active_in = 1 and
\* gtwiz_userclk_rx_active_in = 1, then await the rising edge.
BringupUserClk ==
    /\ pc = "bu_bypass"
    /\ TrainingEdge
    /\ gtwiz_userclk_active_in' = StageValue(3, omit)
    /\ pc' = "bu_userclk"
    /\ UNCHANGED << hb_gtwiz_reset_all_in, gtwiz_reset_done_in,
                    gtwiz_buffbypass_done_in, send_first, omit, timer_left, wait_ns,
                    bringupFrame >>

\* dlx_test.py 48-51: the awaited edge; send_first = 1, then await the
\* rising edge.
BringupSendFirst ==
    /\ pc = "bu_userclk"
    /\ TrainingEdge
    /\ send_first' = StageValue(4, omit)
    /\ pc' = "bu_first"
    /\ UNCHANGED << hb_gtwiz_reset_all_in, gtwiz_reset_done_in,
                    gtwiz_buffbypass_done_in, gtwiz_userclk_active_in, omit, timer_left,
                    wait_ns, bringupFrame >>

\* The step below with the write of line 52 left out.
BringupKeepReset ==
    /\ pc = "bu_first"
    /\ TrainingEdge
    /\ pc' = "bu_deassert"
    /\ UNCHANGED << hb_gtwiz_reset_all_in, handshakeVars, omit, timer_left, wait_ns,
                    bringupFrame >>

\* dlx_test.py 51-54: the awaited edge; hb_gtwiz_reset_all_in = 0, then await
\* the rising edge.
BringupDeassertReset ==
    /\ pc = "bu_first"
    /\ TrainingEdge
    /\ hb_gtwiz_reset_all_in' = 0
    /\ pc' = "bu_deassert"
    /\ UNCHANGED << handshakeVars, omit, timer_left, wait_ns, bringupFrame >>

\* dlx_test.py 54-60: the awaited edge; start_time is taken and the loop
\* condition rx_tx_linkup != 1 is evaluated for the first time.
BringupWaitLinkup ==
    /\ pc = "bu_deassert"
    /\ TrainingEdge
    /\ wait_ns' = 0
    /\ pc' = IF rx_tx_linkup' # 1 THEN "bu_wait" ELSE "bu_up"
    /\ UNCHANGED << hb_gtwiz_reset_all_in, handshakeVars, omit, timer_left,
                    bringupFrame >>

\* dlx_test.py 60-63: one iteration of the wait: the awaited edge, then
\* RuntimeError if more than timeout ns have passed since start_time, else
\* the loop condition again.
BringupWaitEdge ==
    /\ pc = "bu_wait"
    /\ TrainingEdge
    /\ wait_ns' = wait_ns + ClockPeriod
    /\ pc' = IF wait_ns' > LinkupTimeoutNs THEN "bu_timeout"
             ELSE IF rx_tx_linkup' # 1 THEN "bu_wait"
             ELSE "bu_up"
    /\ UNCHANGED << hb_gtwiz_reset_all_in, handshakeVars, omit, timer_left,
                    bringupFrame >>

\* ------------------------------------------------------------ Bus.__init__
\* bus.py 81: reset_active_level=not active_high_reset, as the integer the
\* bool stands for.
ResetActiveLevel(ahr) == IF ~ahr THEN 1 ELSE 0

\* bus.py 7-82: the bus is constructed, with hb_gtwiz_reset_all_in as its
\* reset, before the bring-up drives that signal.
BusConstruct ==
    \E ahr \in BOOLEAN :
        /\ pc = "idle"
        /\ edge_no = 0
        /\ active_high_reset' = ahr
        /\ reset_active_level' = ResetActiveLevel(ahr)
        /\ UNCHANGED << pc, flit_data, header, laneSide, resetVars, wflVars, tlxVars,
                        dutLinkVars, bringupVars, txVars, checkVars >>

NextBringup ==
    \/ BusConstruct
    \/ BringupAssertReset
    \/ BringupStartTimer
    \/ BringupTimerEdge
    \/ BringupResetDone
    \/ BringupBuffBypass
    \/ BringupUserClk
    \/ BringupSendFirst
    \/ BringupDeassertReset
    \/ BringupWaitLinkup
    \/ BringupWaitEdge

SpecBringup == Init /\ [][NextBringup]_vars

\* ------------------------------------- lane framer and retransmission (TX)
\* frame(flit): lane i carries payload bits [64i+63 : 64i], and every lane
\* word carries a copy of the header.
Frame(f) == [i \in Lanes |-> BitSlice(f, i * LaneBits, LaneBits)]

FrameHeader(h) == [i \in Lanes |-> h]

\* The flit a NACK asks for: the head of the retransmit buffer.
ReplayTarget(buf) == Head(buf)

\* One rising edge as the TX side of the design sees it, the link being up.
\* An acknowledgement, when one arrives and no NACK is sampled, pops the head
\* of the retransmit buffer and releases its credit.  A sampled NACK
\* re-presents the head of the buffer through the framer and reserves
\* nothing.  Otherwise a flit presented on the TLX interface is framed onto
\* the lanes and buffered if a credit can be reserved, and is not presented
\* if none can.  The lane outputs keep the last framed words.
TxEdge ==
    \E ack \in BOOLEAN :
        LET acked    == ack /\ rx_tx_nack = 0 /\ retx_buffer # << >>
            buffer   == IF acked THEN Tail(retx_buffer) ELSE retx_buffer
            credits  == IF acked THEN release(available) ELSE available
            replay   == rx_tx_nack = 1 /\ buffer # << >>
            accepted == ~replay /\ tlx_dlx_flit_valid = 1 /\ credits > 0
        IN  /\ available' = IF accepted THEN try_reserve(credits) ELSE credits
            /\ retx_buffer' =
                  IF accepted
                  THEN Append(buffer, << tlx_dlx_flit, tlx_dlx_debug_encode >>)
                  ELSE buffer
            /\ dlx_tx_data' =
                  IF replay THEN Frame(ReplayTarget(buffer)[1])
                  ELSE IF accepted THEN Frame(tlx_dlx_flit)
                  ELSE dlx_tx_data
            /\ dlx_tx_header' =
                  IF replay THEN FrameHeader(ReplayTarget(buffer)[2])
                  ELSE IF accepted THEN FrameHeader(tlx_dlx_debug_encode)
                  ELSE dlx_tx_header
            /\ replayed' = IF replay THEN 1 ELSE 0

\* What the TX-side operations leave alone.
txFrame == << laneSide, resetVars, wflVars, rx_tx_linkup, burst, bringupVars >>

\* driver.py 91-92 with the TX side of the design behind the awaited edge:
\* flit-valid = 0; return.
SendTlxFlitDeassertTx ==
    /\ pc = "tlx_wait"
    /\ TxEdge
    /\ tlx_dlx_flit_valid' = 0
    /\ send_outcome' = SendOutcome(linkup_at_send, credit_at_send)
    /\ pc' = "idle"
    /\ UNCHANGED << flit_data, header, tlx_dlx_flit, tlx_dlx_debug_encode,
                    linkup_at_send, credit_at_send, rx_tx_nack, checkVars, busVars,
                    txFrame >>

\* ------------------------------------------- run_nack_retransmission_test
\* test_ocx_dlx_top.py 171-172: rx_tx_nack = 1, then await the rising edge.
NackAssert ==
    /\ pc = "idle"
    /\ rx_tx_nack' = 1
    /\ pc' = "nack_wait"
    /\ UNCHANGED << flit_data, header, tlxVars, available, dlx_tx_data, dlx_tx_header,
                    retx_buffer, replayed, checkVars, busVars, txFrame >>

\* test_ocx_dlx_top.py 172-173: the awaited edge, then rx_tx_nack = 0.
NackDeassert ==
    /\ pc = "nack_wait"
    /\ TxEdge
    /\ rx_tx_nack' = 0
    /\ pc' = "idle"
    /\ UNCHANGED << flit_data, header, tlxVars, checkVars, busVars, txFrame >>

\* --------------------------------------------------- check_dlx_tx_output
\* await ClockCycles(dut.clk_156_25MHz, 4)
CheckCycles == 4

\* expected_data.append(flit_data >> start_bit & 0xFFFFFFFFFFFFFFFF)
ExpectedChunkBigEndian(f, i) ==
    (f \div (2 ^ ((NumLanes - 1 - i) * LaneBits))) % (LaneMask + 1)

ExpectedChunk(f, i) == (f \div (2 ^ (i * LaneBits))) % (LaneMask + 1)

ExpectedData(f) == [i \in Lanes |-> ExpectedChunk(f, i)]

\* assert lane_data == expected_data[i], for each lane; the headers are read
\* and compared with nothing.
CheckDlxTxResult(obs_data, exp_data) ==
    IF \A i \in Lanes : obs_data[i] = exp_data[i] THEN "returned"
    ELSE "AssertionError"

\* test_ocx_dlx_top.py 176, 222: check_dlx_tx_output(dut, flit_data, 0) is
\* called and awaits four clock cycles.
CheckDlxTxBegin ==
    /\ pc = "idle"
    /\ cycles_left' = CheckCycles
    /\ expected_data' = ExpectedData(flit_data)
    /\ check_outcome' = "pending"
    /\ pc' = "tx_check"
    /\ UNCHANGED << expected_header, flit_data, header, tlxVars, available, txVars,
                    busVars, txFrame >>

\* One of the four awaited clock cycles.
CheckDlxTxCycle ==
    /\ pc = "tx_check"
    /\ cycles_left > 0
    /\ TxEdge
    /\ cycles_left' = cycles_left - 1
    /\ UNCHANGED << pc, flit_data, header, tlxVars, rx_tx_nack, expected_data,
                    expected_header, check_outcome, busVars, txFrame >>

\* test_ocx_dlx_top.py 225-239: the lanes are read and compared.
CheckDlxTxCompare ==
    /\ pc = "tx_check"
    /\ cycles_left = 0
    /\ check_outcome' = CheckDlxTxResult(dlx_tx_data, expected_data)
    /\ pc' = "idle"
    /\ UNCHANGED << flit_data, header, tlxVars, available, txVars, cycles_left,
                    expected_data, expected_header, busVars, txFrame >>

\* A rising edge passing while the test is between two operations.
IdleTxEdge ==
    /\ pc = "idle"
    /\ TxEdge
    /\ UNCHANGED << pc, flit_data, header, tlxVars, rx_tx_nack, checkVars, busVars,
                    txFrame >>

\* ---------------------------------------------------- check_lane_outputs
\* The expected_data and expected_header lists a caller passes: the lane
\* words of a flit, or those with one lane altered.
ExpectedDataChoices ==
    {ExpectedData(f) : f \in TlxFlitValues}
        \cup {[ExpectedData(1) EXCEPT ![NumLanes - 1] = 1]}

ExpectedHeaderChoices ==
    {FrameHeader(h) : h \in {0, HeaderLimit - 1}}
        \cup {[FrameHeader(0) EXCEPT ![NumLanes - 2] = 1]}

\* monitor.py 66-72, from lane i on: the first lane whose data or header
\* differs raises ValueError.
RECURSIVE CheckLanesDataOnly(_, _, _, _, _)
CheckLanesDataOnly(obs_data, obs_header, exp_data, exp_header, i) ==
    IF i >= NumLanes THEN "returned"
    ELSE IF obs_data[i] # exp_data[i] THEN "ValueError"
    ELSE CheckLanesDataOnly(obs_data, obs_header, exp_data, exp_header, i + 1)

RECURSIVE CheckLanes(_, _, _, _, _)
CheckLanes(obs_data, obs_header, exp_data, exp_header, i) ==
    IF i >= NumLanes THEN "returned"
    ELSE IF obs_data[i] # exp_data[i] THEN "ValueError"
    ELSE IF obs_header[i] # exp_header[i] THEN "ValueError"
    ELSE CheckLanes(obs_data, obs_header, exp_data, exp_header, i + 1)

\* monitor.py 55-65: check_lane_outputs(expected_data, expected_header) is
\* called and awaits four clock cycles.
CheckLaneOutputsBegin ==
    \E ed \in ExpectedDataChoices, eh \in ExpectedHeaderChoices :
        /\ pc = "idle"
        /\ cycles_left' = CheckCycles
        /\ expected_data' = ed
        /\ expected_header' = eh
        /\ check_outcome' = "pending"
        /\ pc' = "clo_wait"
        /\ UNCHANGED << flit_data, header, tlxVars, available, txVars, busVars,
                        txFrame >>

\* monitor.py 65: one of the four awaited clock cycles.
CheckLaneOutputsCycle ==
    /\ pc = "clo_wait"
    /\ cycles_left > 0
    /\ TxEdge
    /\ cycles_left' = cycles_left - 1
    /\ UNCHANGED << pc, flit_data, header, tlxVars, rx_tx_nack, expected_data,
                    expected_header, check_outcome, busVars, txFrame >>

\* monitor.py 66-72: the lanes are read and compared in index order.
CheckLaneOutputsCompare ==
    /\ pc = "clo_wait"
    /\ cycles_left = 0
    /\ check_outcome' =
          CheckLanes(dlx_tx_data, dlx_tx_header, expected_data, expected_header, 0)
    /\ pc' = "idle"
    /\ UNCHANGED << flit_data, header, tlxVars, available, txVars, cycles_left,
                    expected_data, expected_header, busVars, txFrame >>

NextTx ==
    \/ SendTlxFlitDrive
    \/ SendTlxFlitDeassertTx
    \/ NackAssert
    \/ NackDeassert
    \/ CheckDlxTxBegin
    \/ CheckDlxTxCycle
    \/ CheckDlxTxCompare
    \/ IdleTxEdge

SpecTx == Init /\ [][NextTx]_vars

NextCheck ==
    \/ SendTlxFlitDrive
    \/ SendTlxFlitDeassertTx
    \/ CheckLaneOutputsBegin
    \/ CheckLaneOutputsCycle
    \/ CheckLaneOutputsCompare
    \/ IdleTxEdge

SpecCheck == Init /\ [][NextCheck]_vars

\* ------------------------------------------------------ run_crc_error_test
\* corrupted_data = dut.ln0_rx_data.value ^ 0x0F
XorMask == 15

CorruptedDataKeep(d, m) == d

CorruptedData(d, m) == Xor(d, m)

\* The corruptions injected, as << lane, mask >>: 0x0F on lane 0, as far as
\* the lane is wide, and single bits at payload bits 0, 63, 64 and 511.
CorruptChoices ==
    { << 0, XorMask % (LaneMask + 1) >>,
      << 0, 1 >>,
      << 0, 2 ^ (LaneBits - 1) >>,
      << 1, 1 >>,
      << NumLanes - 1, 2 ^ (LaneBits - 1) >> }

\* The corruption as a mask over the whole payload.
PayloadMask(l, m) == m * (2 ^ (l * LaneBits))

\* test_ocx_dlx_top.py 130-131, on lane 0 there and on a random lane at
\* 191-193: the data of one lane is read, XORed and written back while the
\* framed flit waits for the edge.  A flit is corrupted once.
CorruptLane ==
    \E c \in CorruptChoices :
        /\ pc = "dlx_wait"
        /\ corrupt_mask = 0
        /\ ln_rx_data' = [ln_rx_data EXCEPT ![c[1]] = CorruptedData(ln_rx_data[c[1]], c[2])]
        /\ corrupt_mask' = c[2]
        /\ corrupt_lane' = c[1]
        /\ UNCHANGED << pc, flit_data, header, ln_rx_header, ln_rx_valid,
                        lane_valid_edges, sent_crc, rxVars, monVars, sampled_valid,
                        lanes_down, linkSide >>

\* ----------------------------------------------------- run_lane_error_test
\* dut.ln0_rx_valid.value = 0 and dut.ln3_rx_valid.value = 0
FaultLanes == {0, 3}

\* The most lanes the stress test is let bring down between two sends.
MaxLanesDown == 2

\* test_ocx_dlx_top.py 146, 155: a lane is brought down; the next
\* send_dlx_flit raises its valid again.
InjectLaneFault ==
    \E l \in FaultLanes :
        /\ pc \in {"idle", "dlx_wait"}
        /\ ln_rx_valid' = [ln_rx_valid EXCEPT ![l] = 0]
        /\ lanes_down' = lanes_down \cup {l}
        /\ UNCHANGED << pc, flit_data, header, ln_rx_data, ln_rx_header,
                        lane_valid_edges, sent_crc, rxVars, monVars, sampled_valid,
                        corrupt_mask, corrupt_lane, linkSide >>

\* ------------------------------------- observe_tlx_rx_flit, the coroutine
\* monitor.py 43-49: observe_tlx_rx_flit is called and waits for a rising
\* edge of dlx_tlx_flit_valid.
ObserveTlxRxFlitBegin ==
    /\ mon_pc = "idle"
    /\ mon_pc' = "waiting"
    /\ UNCHANGED << pc, flit_data, header, laneVars, rxVars, mon_result, faultVars,
                    linkSide >>

\* The caller has taken the returned tuple.
ObserveTlxRxFlitReturn ==
    /\ mon_pc = "done"
    /\ mon_pc' = "idle"
    /\ mon_result' = << 0, 0, 0 >>
    /\ UNCHANGED << pc, flit_data, header, laneVars, rxVars, faultVars, linkSide >>

NextCrc ==
    \/ SendDlxFlitDrive
    \/ SendDlxFlitDeassert
    \/ IdleLaneEdge
    \/ CorruptLane

SpecCrc == Init /\ [][NextCrc]_vars

NextFault ==
    \/ SendDlxFlitDrive
    \/ SendDlxFlitDeassert
    \/ IdleLaneEdge
    \/ InjectLaneFault
    \/ ObserveTlxRxFlitBegin
    \/ ObserveTlxRxFlitReturn

SpecFault == Init /\ [][NextFault]_vars

\* ------------------------------------------------- the other TLX-side sends
\* test_ocx_dlx_top.py 211-214: tlx_dlx_flit_valid = 1 and the flit are
\* written (the header argument is not used), then the rising edge is awaited.
HelperSendTlxFlitDrive ==
    \E f \in TlxFlitValues, h \in Headers :
        /\ pc = "idle"
        /\ flit_data' = f
        /\ header' = h
        /\ tlx_dlx_flit_valid' = 1
        /\ tlx_dlx_flit' = f
        /\ send_outcome' = "pending"
        /\ pc' = "helper_wait"
        /\ UNCHANGED << tlx_dlx_debug_encode, linkup_at_send, credit_at_send, laneSide,
                        farSide, resetVars, wflVars, dutLinkVars >>

\* test_ocx_dlx_top.py 214-215: the awaited edge has come, flit-valid = 0.
HelperSendTlxFlitDeassert ==
    /\ pc = "helper_wait"
    /\ LinkEdge
    /\ tlx_dlx_flit_valid' = 0
    /\ send_outcome' = "returned"
    /\ pc' = "idle"
    /\ UNCHANGED << reset, flit_data, header, laneSide, farSide, wflVars, tlx_dlx_flit,
                    tlx_dlx_debug_encode, linkup_at_send, credit_at_send >>

\* bus.py 1-2: the names the module bus.py binds besides its class.
BusModuleNames == {"cocotb", "BusBaseClass"}

\* How the evaluation of a global name in bus.py ends.
BusNameLookup(name) == IF name \in BusModuleNames THEN "bound" ELSE "NameError"

\* bus.py 90-93: drive_tlx_flit writes tlx_dlx_flit_valid = 1 and the flit,
\* then evaluates RisingEdge(...) to await it; when the name is not bound the
\* coroutine ends there in NameError and line 93 is not reached.
BusDriveTlxFlit ==
    \E f \in TlxFlitValues :
        /\ pc = "idle"
        /\ flit_data' = f
        /\ tlx_dlx_flit_valid' = 1
        /\ tlx_dlx_flit' = f
        /\ IF BusNameLookup("RisingEdge") = "bound"
           THEN /\ pc' = "bus_wait"
                /\ send_outcome' = "pending"
           ELSE /\ pc' = "idle"
                /\ send_outcome' = "NameError"
        /\ UNCHANGED << header, tlx_dlx_debug_encode, linkup_at_send, credit_at_send,
                        laneSide, farSide, resetVars, wflVars, dutLinkVars >>

NextSend ==
    \/ SendTlxFlitDrive
    \/ SendTlxFlitDeassert
    \/ HelperSendTlxFlitDrive
    \/ HelperSendTlxFlitDeassert
    \/ BusDriveTlxFlit
    \/ IdleLinkEdge

SpecSend == Init /\ [][NextSend]_vars

\* ------------------------------------------ send_dlx_flit, the test helper
\* test_ocx_dlx_top.py 250: start_bit = i * 64
HelperStartBit(i) == i * LaneBits

\* test_ocx_dlx_top.py 252: flit_data >> start_bit & 0xFFFFFFFFFFFFFFFF,
\* the shift binding tighter than the mask.
HelperDataChunkNoMask(f, i) == f \div (2 ^ HelperStartBit(i))

HelperDataChunk(f, i) == (f \div (2 ^ HelperStartBit(i))) % (LaneMask + 1)

\* test_ocx_dlx_top.py 248-252: the list data_chunks of the helper.
helper_data_chunks(f) == [i \in Lanes |-> HelperDataChunk(f, i)]

\* test_ocx_dlx_top.py 255-260: data, header and valid = 1 are written on
\* each lane, then the rising edge is awaited.
HelperSendDlxFlitDrive ==
    \E f \in DriveValues, h \in Headers :
        /\ pc = "idle"
        /\ flit_data' = f
        /\ header' = h
        /\ ln_rx_data' = helper_data_chunks(f)
        /\ ln_rx_header' = [i \in Lanes |-> h]
        /\ ln_rx_valid' = [i \in Lanes |-> 1]
        /\ lane_valid_edges' = 0
        /\ sent_crc' = crc_compute(f)
        /\ corrupt_mask' = 0
        /\ corrupt_lane' = 0
        /\ pc' = "helper_dlx_wait"
        /\ UNCHANGED << rxVars, monVars, sampled_valid, lanes_down, linkSide >>

\* test_ocx_dlx_top.py 260-264: the awaited edge, then valid = 0 on each lane.
HelperSendDlxFlitDeassert ==
    /\ pc = "helper_dlx_wait"
    /\ LaneEdge
    /\ ln_rx_valid' = [i \in Lanes |-> 0]
    /\ lanes_down' = {}
    /\ pc' = "idle"
    /\ UNCHANGED << flit_data, header, ln_rx_data, ln_rx_header, sent_crc,
                    corrupt_mask, corrupt_lane, linkSide >>

NextEquiv ==
    \/ SendDlxFlitDrive
    \/ SendDlxFlitDeassert
    \/ HelperSendDlxFlitDrive
    \/ HelperSendDlxFlitDeassert
    \/ IdleLaneEdge

SpecEquiv == Init /\ [][NextEquiv]_vars

\* ------------------------------------------- lane faults between two sends
\* test_ocx_dlx_top.py 146-147, 155-156: run_lane_error_test writes the
\* valid of lane 0 or lane 3 as a statement of its own, with no send awaited.
LaneErrorBetweenSends ==
    /\ pc = "idle"
    /\ InjectLaneFault

\* test_ocx_dlx_top.py 194-197: the stress test brings a random lane down
\* after its awaited send has returned.
StressLaneDown ==
    \E l \in Lanes :
        /\ pc = "idle"
        /\ Cardinality(lanes_down \cup {l}) <= MaxLanesDown
        /\ ln_rx_valid' = [ln_rx_valid EXCEPT ![l] = 0]
        /\ lanes_down' = lanes_down \cup {l}
        /\ UNCHANGED << pc, flit_data, header, ln_rx_data, ln_rx_header,
                        lane_valid_edges, sent_crc, rxVars, monVars, sampled_valid,
                        corrupt_mask, corrupt_lane, linkSide >>

NextSticky ==
    \/ SendDlxFlitDrive
    \/ SendDlxFlitDeassert
    \/ IdleLaneEdge
    \/ LaneErrorBetweenSends
    \/ StressLaneDown

SpecSticky == Init /\ [][NextSticky]_vars

\* ================================================================== claims
\* ------------------------------------------------------------------- C1
\* C1: for every flit_data in [0, 2^512), while send_dlx_flit presents the
\* flit, lane i (i = 0..7) carries exactly bits [64*i+63 : 64*i] of flit_data:
\* lane 0 the least significant word, lane 7 the most significant one.
TheoremC1 ==
    (pc = "dlx_wait" /\ flit_data < FlitSpace) =>
        \A i \in Lanes : ln_rx_data[i] = BitSlice(flit_data, LaneBits * i, LaneBits)

\* A flit whose lane words all differ from their mirror image is presented.
WitnessC1 ==
    /\ pc = "dlx_wait"
    /\ flit_data = LanePattern
    /\ ln_rx_data[0] = 1
    /\ ln_rx_data[1] = 2
    /\ ln_rx_data[NumLanes - 1] = NumLanes % (2 ^ LaneBits)

\* ------------------------------------------------------------------- C2
\* C2: round trip.  For every payload p below 2^512 and header h in [0,4),
\* the flit rebuilt from the lanes that send_dlx_flit drove, taken in index
\* order, has payload p, header h and no CRC error.
TheoremC2 ==
    (pc = "idle" /\ dlx_tlx_flit_valid = 1 /\ flit_data < FlitSpace) =>
        /\ dlx_tlx_flit = flit_data
        /\ dlx_tlx_flit_header = header
        /\ dlx_tlx_flit_crc_err = 0

\* The lane pattern with the largest header has made the round trip.
WitnessC2 ==
    /\ pc = "idle"
    /\ dlx_tlx_flit_valid = 1
    /\ flit_data = LanePattern
    /\ header = HeaderLimit - 1
    /\ dlx_tlx_flit = LanePattern
    /\ dlx_tlx_flit_header = HeaderLimit - 1

\* ------------------------------------------------------------------- C3
\* C3: a send_dlx_flit that waits for its rising edge has valid = 1 on all 8
\* lanes; that edge ends the send with valid = 0 on all 8 lanes, and it is
\* the only edge at which a lane of this flit is sampled valid.
TheoremC3 ==
    [][ /\ (pc = "dlx_wait" =>
               /\ \A i \in Lanes : ln_rx_valid[i] = 1
               /\ pc' = "idle"
               /\ \A i \in Lanes : ln_rx_valid'[i] = 0
               /\ lane_valid_edges' = 1)
        /\ lane_valid_edges' <= 1 ]_vars

\* A send has returned and another edge has passed since.
WitnessC3 ==
    /\ pc = "idle"
    /\ lane_valid_edges = 1
    /\ dlx_tlx_flit_valid = 0
    /\ \A i \in Lanes : ln_rx_valid[i] = 0

\* ------------------------------------------------------------------- C4
\* C4: while a flit is presented, the header field of every one of the 8
\* lanes holds the header value passed to the send.
TheoremC4 ==
    pc = "dlx_wait" => \A i \in Lanes : ln_rx_header[i] = header

\* A flit with the largest header is presented on the lanes.
WitnessC4 ==
    /\ pc = "dlx_wait"
    /\ header = HeaderLimit - 1
    /\ \A i \in Lanes : ln_rx_header[i] = HeaderLimit - 1

\* ------------------------------------------------------------------- C5
\* C5: wait_for_linkup takes one rising edge per pass of its loop and never
\* more than its budget; when it stops waiting with link-up not asserted it
\* ends for its caller in LinkupTimeout, and with link-up asserted it returns.
ClaimC5 ==
    [][ pc = "wfl_wait" =>
           /\ timeout_count' = timeout_count + 1
           /\ timeout_count' <= timeout_ticks
           /\ (pc' = "idle" /\ rx_tx_linkup' # 1) => wfl_outcome' = "LinkupTimeout"
           /\ (pc' = "idle" /\ rx_tx_linkup' = 1) => wfl_outcome' = "returned" ]_vars

\* ------------------------------------------------------------------- C6
\* C6: a TLX flit presented by a send that began while link-up was not
\* asserted is never driven with flit-valid and is reported to the caller as
\* a protocol violation.
ClaimC6 ==
    (send_outcome # "none" /\ linkup_at_send # 1) =>
        /\ tlx_dlx_flit_valid = 0
        /\ send_outcome = "ProtocolViolation"

\* ------------------------------------------------------------------- C7
\* C7: a send that began with no credit available does not assert flit-valid
\* and reports Stalled to its caller; the credit counter never goes below 0.
ClaimC7 ==
    /\ available >= 0
    /\ (send_outcome # "none" /\ credit_at_send = 0) =>
           /\ tlx_dlx_flit_valid = 0
           /\ send_outcome = "Stalled"

\* ------------------------------------------------------------------- C8
\* C8: after depth consecutive sends with no release no credit is available,
\* and a further send attempted then has ended in Stalled; after one release
\* from there exactly one credit is available.
BurstExhaustsCredits == burst >= CreditDepth => available = 0

ClaimC8 ==
    /\ BurstExhaustsCredits
    /\ (burst > CreditDepth /\ pc = "idle") => send_outcome = "Stalled"

\* ------------------------------------------------------------------- C9
\* C9: in every reachable state, whatever sends and releases came before,
\* 0 <= available <= depth.
TheoremC9 == 0 <= available /\ available <= CreditDepth

\* A flit was presented with no credit left, after depth sends in a row.
WitnessC9 == burst = CreditDepth + 1 /\ available = 0

\* ------------------------------------------------------------------- C10
\* C10: apply_reset_sequence deasserts reset only after two rising edges have
\* sampled reset = 1, and returns on the first rising edge after that.
TheoremC10 ==
    [][ /\ (reset = 1 /\ reset' = 0) =>
               (reset_held_edges' = 2 /\ pc' = "reset_settle")
        /\ pc = "reset_settle" =>
               /\ reset = 0
               /\ reset_settle_edges = 0
               /\ reset_settle_edges' = 1
               /\ pc' = "idle" ]_vars

\* The reset sequence has returned.
WitnessC10 ==
    /\ pc = "idle"
    /\ reset = 0
    /\ reset_held_edges = 2
    /\ reset_settle_edges = 1

\* C11: the link leaves RESET_HELD for TRAINING only on an edge that samples
\* reset deasserted after the four handshake stages were observed in the
\* order reset-done, buffer-bypass-done, user-clock-active, send-first; and in
\* the bring-up as dlx_test runs it no handshake signal is deasserted once
\* asserted and each stage is first sampled asserted on a strictly later
\* edge than the stage before it.
StagesInOrder(at) ==
    /\ at[1] # 0
    /\ \A k \in 1 .. (NumStages - 1) : at[k] < at[k + 1]

TheoremC11 ==
    [][ /\ (link_state' = "TRAINING" /\ link_state # "TRAINING")
            => /\ link_state = "RESET_HELD"
               /\ hb_gtwiz_reset_all_in = 0
               /\ hs_stage = NumStages
               /\ StagesInOrder(asserted_at)
        /\ \A k \in Stages : StageSignal(k) = 1 => StageSignal(k)' = 1
        /\ omit = 0 =>
              \A k \in 1 .. (NumStages - 1) :
                  asserted_at'[k + 1] # 0 =>
                      (asserted_at'[k] # 0 /\ asserted_at'[k] < asserted_at'[k + 1])
      ]_vars

\* The bring-up as written has taken the link into TRAINING, every stage
\* having been sampled on its own edge.
WitnessC11 ==
    /\ omit = 0
    /\ link_state = "TRAINING"
    /\ hb_gtwiz_reset_all_in = 0
    /\ StagesInOrder(asserted_at)
    /\ asserted_at[NumStages] = asserted_at[1] + NumStages - 1

SingleBitFlipsDetected ==
    \A f \in FlitValues :
        \A b \in 0 .. (TotalBits - 1) :
            ~crc_validate(Xor(f, 2 ^ b), crc_compute(f))

ClaimC16 ==
    [][ (mon_pc = "waiting" /\ mon_pc' = "done")
            => /\ dlx_tlx_flit_valid = 0
               /\ dlx_tlx_flit_valid' = 1
               /\ mon_result' = << dlx_tlx_flit', dlx_tlx_flit_header',
                                   dlx_tlx_flit_crc_err' >>
      ]_vars

\* C17: check_lane_outputs samples the TX lanes after exactly four awaited
\* clock cycles, and it raises ValueError if and only if, as sampled then,
\* the data or the header of some lane differs from what was expected for
\* that lane; otherwise it returns.
TheoremC17 ==
    [][ /\ (pc = "clo_wait" /\ pc' = "idle")
            => /\ cycles_left = 0
               /\ check_outcome' \in {"ValueError", "returned"}
               /\ check_outcome' = "ValueError"
                     <=> \E i \in Lanes :
                            \/ dlx_tx_data[i] # expected_data[i]
                            \/ dlx_tx_header[i] # expected_header[i]
        /\ (pc = "idle" /\ pc' = "clo_wait") => cycles_left' = CheckCycles
        /\ (pc = "clo_wait" /\ pc' = "clo_wait")
            => /\ cycles_left' = cycles_left - 1
               /\ expected_data' = expected_data
               /\ expected_header' = expected_header
               /\ check_outcome' = "pending"
      ]_vars

\* check_lane_outputs has raised ValueError on a header mismatch alone: the
\* data of every lane is as expected.
WitnessC17 ==
    /\ pc = "idle"
    /\ check_outcome = "ValueError"
    /\ cycles_left = 0
    /\ dlx_tx_data = expected_data
    /\ dlx_tx_data = ExpectedData(FlitSpace - 1)
    /\ \E i \in Lanes : dlx_tx_header[i] # expected_header[i]

\* C18: the cycle budget of wait_for_linkup is timeout_ns // clock_period;
\* each pass of its loop awaits one rising edge, counts it and tests link-up
\* once; the loop goes on only while link-up is not 1 and the count is below
\* the budget, so that whatever the link-up signal does the operation has
\* returned after at most timeout_ticks edges.
BudgetOfTimeout ==
    /\ timeout_ticks * ClockPeriod <= timeout_ns
    /\ timeout_ns < (timeout_ticks + 1) * ClockPeriod
    /\ timeout_count <= timeout_ticks
    /\ pc = "wfl_wait" => (timeout_count < timeout_ticks /\ wfl_outcome = "none")

TheoremC18 ==
    [][ /\ BudgetOfTimeout'
        /\ pc = "wfl_wait" =>
              /\ timeout_count' = timeout_count + 1
              /\ pc' = "wfl_wait" <=>
                    (rx_tx_linkup' # 1 /\ timeout_count' < timeout_ticks)
              /\ pc' # "wfl_wait" => (pc' = "idle" /\ wfl_outcome' = "returned")
      ]_vars

\* wait_for_linkup has used its whole budget of MaxTimeoutTicks edges with
\* link-up never asserted, and has returned.
WitnessC18 ==
    /\ pc = "idle"
    /\ wfl_outcome = "returned"
    /\ timeout_ns = MaxTimeoutTicks * ClockPeriod
    /\ timeout_ticks = MaxTimeoutTicks
    /\ timeout_count = timeout_ticks
    /\ linkup_at_exit = 0

\* C19 as stated: when wait_for_linkup leaves its loop with link-up read as
\* 1, what it reports is success, never the timeout.
ClaimC19 ==
    (wfl_log # "none" /\ linkup_at_exit = 1) => wfl_log = "info"

\* C20 as stated: a constructed bus has reset active level 1 when
\* active_high_reset is True and 0 when it is False.
ClaimC20 ==
    reset_active_level # -1 =>
        reset_active_level = (IF active_high_reset THEN 1 ELSE 0)

\* C21 as stated: whenever none of the three TLX-side sends is in progress,
\* tlx_dlx_flit_valid is 0, and a send in progress holds it at 1 over its one
\* awaited edge.
ClaimC21 ==
    /\ pc \notin {"tlx_wait", "helper_wait", "bus_wait"} => tlx_dlx_flit_valid = 0
    /\ pc \in {"tlx_wait", "helper_wait", "bus_wait"}
          => (tlx_dlx_flit_valid = 1 /\ tlx_dlx_flit = flit_data)


\* ------------------------------------------------------------------- C22
\* C22: the driver's send_dlx_flit and the test helper send_dlx_flit put the
\* same values on the lanes.  Whichever of the two drives (flit_data, header)
\* from whatever the lanes held before, every lane then holds the word the
\* driver computes and the word the helper computes, the header, and valid = 1;
\* the one awaited edge samples those values, and after it every valid is 0
\* with data and header left as driven.
TheoremC22 ==
    [][ /\ (pc = "idle" /\ pc' \in {"dlx_wait", "helper_dlx_wait"}) =>
               /\ ln_rx_data' = data_chunks(flit_data')
               /\ ln_rx_data' = helper_data_chunks(flit_data')
               /\ ln_rx_header' = LaneHeaders(header')
               /\ ln_rx_valid' = AssertValid
        /\ (pc \in {"dlx_wait", "helper_dlx_wait"}) =>
               /\ pc' = "idle"
               /\ sampled_valid' = AssertValid
               /\ lane_valid_edges' = 1
               /\ ln_rx_valid' = [i \in Lanes |-> 0]
               /\ ln_rx_data' = ln_rx_data
               /\ ln_rx_header' = ln_rx_header
               /\ dlx_tlx_flit' = flit_data % FlitSpace
               /\ dlx_tlx_flit_header' = header ]_vars

\* The helper presents a flit wider than the payload on lanes that still hold
\* the words of an earlier, different flit's header.
WitnessC22 ==
    /\ pc = "helper_dlx_wait"
    /\ flit_data = FlitSpace + LanePattern
    /\ header = 2
    /\ ln_rx_data = data_chunks(LanePattern)
    /\ dlx_tlx_flit_valid = 1
    /\ dlx_tlx_flit_header = 1


\* ------------------------------------------------------------------- C23
\* C23: a lane brought down by the lane-error test or by the stress test
\* does not stay down over the next send.  The send that follows writes
\* valid = 1 on all 8 lanes at once, whichever lanes were down; the edge
\* it awaits samples all 8 valids at 1, rebuilds the flit, and leaves all
\* 8 valids at 0.
TheoremC23 ==
    [][ /\ (pc = "idle" /\ pc' = "dlx_wait") =>
               \A i \in Lanes : ln_rx_valid'[i] = 1
        /\ (pc = "dlx_wait") =>
               /\ \A i \in Lanes : ln_rx_valid[i] = 1
               /\ \A i \in Lanes : sampled_valid'[i] = 1
               /\ dlx_tlx_flit_valid' = 1
               /\ \A i \in Lanes : ln_rx_valid'[i] = 0
               /\ lanes_down' = {} ]_vars

\* Lane 3 and the last lane were brought down, and the send that followed
\* has all 8 lanes valid while it waits for its edge.
WitnessC23 ==
    /\ pc = "dlx_wait"
    /\ lanes_down = {3, NumLanes - 1}
    /\ \A i \in Lanes : ln_rx_valid[i] = 1
    /\ flit_data = LanePattern


\* ------------------------------------------------------------------- C24
\* C24: whatever non-negative flit_data a send_dlx_flit (the driver's or the
\* helper's) was given, every lane word it drives lies in [0, 2^64) and the
\* 8 lane words, concatenated in lane order, are flit_data mod 2^512: a
\* value of 2^512 or more is sent all the same, without its bits above 511.
TheoremC24 ==
    pc \in {"dlx_wait", "helper_dlx_wait"} =>
        /\ flit_data >= 0
        /\ \A i \in Lanes : ln_rx_data[i] \in 0 .. LaneMask
        /\ Concat(ln_rx_data) = flit_data % FlitSpace
        /\ Concat(ln_rx_data) < FlitSpace
        /\ \A i \in Lanes : ln_rx_valid[i] = 1

\* The driver presents a flit_data of more than 2^512: the lanes carry the
\* lane pattern, its low 512 bits.
WitnessC24 ==
    /\ pc = "dlx_wait"
    /\ flit_data >= FlitSpace
    /\ Concat(ln_rx_data) = LanePattern
    /\ Concat(ln_rx_data) # flit_data

=============================================================================
